---- MODULE Spec2Model ----
(***************************************************************************)
(* Accounting and cash-reconciliation engine of the POS back office:       *)
(* chart of accounts, journal engine, cash register sessions.              *)
(*                                                                         *)
(* Amounts are integers (the code uses JS numbers).  Account ids are the   *)
(* positions 1..Len(accounts): ids are opaque and accounts are never       *)
(* removed from storage (deleteById is a soft delete).                     *)
(***************************************************************************)
EXTENDS Integers, Sequences, FiniteSets, TLC

VARIABLES accounts, journalEntries, registers, movements, clock, requests, response,
          sales, returns, purchases, stock

vars == <<accounts, journalEntries, registers, movements, clock, requests, response,
          sales, returns, purchases, stock>>

ledgerVars == <<accounts, journalEntries>>
registerVars == <<registers, movements, clock>>
tradeVars == <<sales, returns, purchases, stock>>

(***************************************************************************)
(* Bounds and input domains                                                *)
(***************************************************************************)
MaxEntries == 2
MaxMovements == 4
MaxDocuments == 2

NoId == 0
NoDate == 0
NoTime == 0
NoUser == "none"

Codes == {"1001", "4000"}
AccountTypes == {"ASSET", "LIABILITY", "EQUITY", "REVENUE", "EXPENSE"}
AccountTypeOf ==
    [code \in {"1001", "1002", "1003", "1004", "1200", "2000", "3000", "4000", "5000"} |->
        CASE code \in {"1001", "1002", "1003", "1004", "1200"} -> "ASSET"
          [] code = "2000" -> "LIABILITY"
          [] code = "3000" -> "EQUITY"
          [] code = "4000" -> "REVENUE"
          [] OTHER -> "EXPENSE"]
Dates == {1, 2}
AccountIdInputs == 1..(Cardinality(Codes) + 1)
ParentInputs == {NoId, 1}
EntryAmounts == {0, 1, 2}
Users == {"u1", "u2"}
EntryUsers == {"u1", "ghost"}
Registers == {"r1", "r2"}
Handlers == {"h1", "h2"}
RegisterInputs == Registers \cup {"r0"}
OpeningBalances == {-10, 100}
SaleAmounts == {0, 50}
DepositAmounts == {0, 30}
WithdrawalAmounts == {0, 30}
ReturnAmounts == {0, 50}
ActualBalances == {-10, 120}

Ok(op) == [op |-> op, ok |-> TRUE, err |-> "", value |-> 0]
OkValue(op, value) == [op |-> op, ok |-> TRUE, err |-> "", value |-> value]
Fail(op, msg) == [op |-> op, ok |-> FALSE, err |-> msg, value |-> 0]

(***************************************************************************)
(* Account registry: accountModel.js, chartOfAccountsService.js            *)
(***************************************************************************)
AccountExists(id) == id \in 1..Len(accounts)

AccountFindById(id) ==
    IF AccountExists(id) THEN accounts[id]
    ELSE [code |-> "", type |-> "", parentId |-> NoId, isActive |-> FALSE]

FindByCode(code) == {id \in 1..Len(accounts) : accounts[id].code = code}

FindAllActive == {id \in 1..Len(accounts) : accounts[id].isActive}

GetChildren(parentId) == {id \in 1..Len(accounts) : accounts[id].parentId = parentId /\ accounts[id].isActive}

HasJournalEntries_DebitOnly(accountId) ==
    Cardinality({i \in 1..Len(journalEntries) : journalEntries[i].debitAccountId = accountId}) > 0

HasJournalEntries(accountId) ==
    LET debitCount == Cardinality({i \in 1..Len(journalEntries) : journalEntries[i].debitAccountId = accountId})
        creditCount == Cardinality({i \in 1..Len(journalEntries) : journalEntries[i].creditAccountId = accountId})
    IN  debitCount + creditCount > 0

ApplyPatch(row, patch) == [f \in DOMAIN row |-> IF f \in DOMAIN patch THEN patch[f] ELSE row[f]]

CreateAccountError(accountData) ==
    IF FindByCode(accountData.code) # {} THEN "Account with this code already exists"
    ELSE IF accountData.parentId # NoId /\ ~AccountExists(accountData.parentId) THEN "Parent account not found"
    ELSE ""

CreateAccount(accountData) ==
    /\ LET err == CreateAccountError(accountData)
       IN  IF err # ""
           THEN /\ response' = Fail("createAccount", err)
                /\ UNCHANGED accounts
           ELSE /\ accounts' = Append(accounts, [code |-> accountData.code, type |-> accountData.type,
                                                 parentId |-> accountData.parentId, isActive |-> TRUE])
                /\ response' = Ok("createAccount")
    /\ UNCHANGED <<journalEntries, registerVars, requests, tradeVars>>

UpdateAccountError(accountId, updateData) ==
    IF "code" \in DOMAIN updateData /\ FindByCode(updateData.code) \ {accountId} # {}
    THEN "Account with this code already exists"
    ELSE IF "parentId" \in DOMAIN updateData /\ updateData.parentId # NoId /\ ~AccountExists(updateData.parentId)
    THEN "Parent account not found"
    ELSE IF "parentId" \in DOMAIN updateData /\ updateData.parentId # NoId /\ updateData.parentId = accountId
    THEN "Account cannot be its own parent"
    ELSE IF ~AccountExists(accountId) THEN "Account not found"
    ELSE ""

UpdateAccountById(accountId, updateData) ==
    /\ LET err == UpdateAccountError(accountId, updateData)
       IN  IF err # ""
           THEN /\ response' = Fail("updateAccount", err)
                /\ UNCHANGED accounts
           ELSE /\ accounts' = [accounts EXCEPT ![accountId] = ApplyPatch(@, updateData)]
                /\ response' = Ok("updateAccount")
    /\ UNCHANGED <<journalEntries, registerVars, requests, tradeVars>>

DeleteAccountError(accountId) ==
    IF GetChildren(accountId) # {} THEN "Cannot delete account with child accounts"
    ELSE IF HasJournalEntries(accountId) THEN "Cannot delete account with journal entries"
    ELSE IF ~AccountExists(accountId) THEN "Account not found"
    ELSE ""

DeleteAccountById(accountId) ==
    /\ LET err == DeleteAccountError(accountId)
       IN  IF err # ""
           THEN /\ response' = Fail("deleteAccount", err)
                /\ UNCHANGED accounts
           ELSE /\ accounts' = [accounts EXCEPT ![accountId].isActive = FALSE]
                /\ response' = Ok("deleteAccount")
    /\ UNCHANGED <<journalEntries, registerVars, requests, tradeVars>>

GetHierarchy ==
    LET active == FindAllActive
        children == [id \in active |-> {child \in active : accounts[child].parentId = id}]
        roots == {id \in active : accounts[id].parentId = NoId}
    IN  [roots |-> roots, children |-> children]

(***************************************************************************)
(* Journal engine: journalService.js, journalModel.js                      *)
(***************************************************************************)
EntryDescription(kind, id) == [kind |-> kind, id |-> id]

ManualEntry == EntryDescription("manual", NoId)

JournalCreateError(entryData) ==
    IF \/ ~AccountExists(entryData.debitAccountId)
       \/ ~AccountExists(entryData.creditAccountId)
       \/ entryData.userId \notin Users
    THEN "Invalid account or user ID"
    ELSE ""

CreateJournalEntryError_SameAccountAllowed(entryData) ==
    IF ~AccountExists(entryData.debitAccountId) \/ ~AccountFindById(entryData.debitAccountId).isActive
    THEN "Debit account not found or inactive"
    ELSE IF ~AccountExists(entryData.creditAccountId) \/ ~AccountFindById(entryData.creditAccountId).isActive
    THEN "Credit account not found or inactive"
    ELSE IF entryData.amount <= 0
    THEN "Journal entry amount must be positive"
    ELSE JournalCreateError(entryData)

CreateJournalEntryError_CreditUnchecked(entryData) ==
    IF ~AccountExists(entryData.debitAccountId) \/ ~AccountFindById(entryData.debitAccountId).isActive
    THEN "Debit account not found or inactive"
    ELSE IF entryData.debitAccountId = entryData.creditAccountId
    THEN "Debit and credit accounts must be different"
    ELSE IF entryData.amount <= 0
    THEN "Journal entry amount must be positive"
    ELSE JournalCreateError(entryData)

CreateJournalEntryError(entryData) ==
    IF ~AccountExists(entryData.debitAccountId) \/ ~AccountFindById(entryData.debitAccountId).isActive
    THEN "Debit account not found or inactive"
    ELSE IF ~AccountExists(entryData.creditAccountId) \/ ~AccountFindById(entryData.creditAccountId).isActive
    THEN "Credit account not found or inactive"
    ELSE IF entryData.debitAccountId = entryData.creditAccountId
    THEN "Debit and credit accounts must be different"
    ELSE IF entryData.amount <= 0
    THEN "Journal entry amount must be positive"
    ELSE JournalCreateError(entryData)

CreateJournalEntry(entryData) ==
    /\ LET err == CreateJournalEntryError(entryData)
       IN  IF err # ""
           THEN /\ response' = Fail("createJournalEntry", err)
                /\ UNCHANGED journalEntries
           ELSE /\ Len(journalEntries) < MaxEntries
                /\ journalEntries' = Append(journalEntries, entryData)
                /\ response' = Ok("createJournalEntry")
    /\ UNCHANGED <<accounts, registerVars, requests, tradeVars>>

EntryExists(entryId) == entryId \in 1..Len(journalEntries)

NoUpdateById == "journalModel.updateById is not a function"

NoDeleteById == "journalModel.deleteById is not a function"

UpdateJournalEntryError(updateData) ==
    IF "debitAccountId" \in DOMAIN updateData
          /\ (~AccountExists(updateData.debitAccountId) \/ ~AccountFindById(updateData.debitAccountId).isActive)
    THEN "Debit account not found or inactive"
    ELSE IF "creditAccountId" \in DOMAIN updateData
          /\ (~AccountExists(updateData.creditAccountId) \/ ~AccountFindById(updateData.creditAccountId).isActive)
    THEN "Credit account not found or inactive"
    ELSE IF {"debitAccountId", "creditAccountId"} \subseteq DOMAIN updateData
          /\ updateData.debitAccountId = updateData.creditAccountId
    THEN "Debit and credit accounts must be different"
    ELSE IF "amount" \in DOMAIN updateData /\ updateData.amount <= 0
    THEN "Journal entry amount must be positive"
    ELSE NoUpdateById

UpdateJournalEntryById_Writes(entryId, updateData) ==
    /\ LET err == UpdateJournalEntryError(updateData)
       IN  IF err # NoUpdateById
           THEN /\ response' = Fail("updateJournalEntry", err)
                /\ UNCHANGED journalEntries
           ELSE IF ~EntryExists(entryId)
           THEN /\ response' = Fail("updateJournalEntry", "Journal entry not found")
                /\ UNCHANGED journalEntries
           ELSE /\ journalEntries' = [journalEntries EXCEPT ![entryId] = ApplyPatch(@, updateData)]
                /\ response' = Ok("updateJournalEntry")
    /\ UNCHANGED <<accounts, registerVars, requests, tradeVars>>

UpdateJournalEntryById(entryId, updateData) ==
    /\ response' = Fail("updateJournalEntry", UpdateJournalEntryError(updateData))
    /\ UNCHANGED <<ledgerVars, registerVars, requests, tradeVars>>

DeleteJournalEntryById_Deletes(entryId) ==
    /\ IF ~EntryExists(entryId)
       THEN /\ response' = Fail("deleteJournalEntry", "Journal entry not found")
            /\ UNCHANGED journalEntries
       ELSE /\ journalEntries' = SubSeq(journalEntries, 1, entryId - 1)
                                    \o SubSeq(journalEntries, entryId + 1, Len(journalEntries))
            /\ response' = Ok("deleteJournalEntry")
    /\ UNCHANGED <<accounts, registerVars, requests, tradeVars>>

DeleteJournalEntryById(entryId) ==
    /\ response' = Fail("deleteJournalEntry", NoDeleteById)
    /\ UNCHANGED <<ledgerVars, registerVars, requests, tradeVars>>

RECURSIVE SumAmounts(_, _)
SumAmounts(rows, idx) ==
    IF idx = {} THEN 0
    ELSE LET i == CHOOSE j \in idx : TRUE
         IN  rows[i].amount + SumAmounts(rows, idx \ {i})

InDateRange(date, startDate, endDate) ==
    /\ (startDate # NoDate => date >= startDate)
    /\ (endDate # NoDate => date <= endDate)

CalculateBalance_CreditUnfiltered(accountId, startDate, endDate) ==
    LET debitEntries == {i \in 1..Len(journalEntries) :
                            /\ journalEntries[i].debitAccountId = accountId
                            /\ InDateRange(journalEntries[i].date, startDate, endDate)}
        creditEntries == {i \in 1..Len(journalEntries) : journalEntries[i].creditAccountId = accountId}
        totalDebit == SumAmounts(journalEntries, debitEntries)
        totalCredit == SumAmounts(journalEntries, creditEntries)
    IN  [debit |-> totalDebit, credit |-> totalCredit, balance |-> totalDebit - totalCredit]

CalculateBalance(accountId, startDate, endDate) ==
    LET debitEntries == {i \in 1..Len(journalEntries) :
                            /\ journalEntries[i].debitAccountId = accountId
                            /\ InDateRange(journalEntries[i].date, startDate, endDate)}
        creditEntries == {i \in 1..Len(journalEntries) :
                            /\ journalEntries[i].creditAccountId = accountId
                            /\ InDateRange(journalEntries[i].date, startDate, endDate)}
        totalDebit == SumAmounts(journalEntries, debitEntries)
        totalCredit == SumAmounts(journalEntries, creditEntries)
    IN  [debit |-> totalDebit, credit |-> totalCredit, balance |-> totalDebit - totalCredit]

RECURSIVE SumOver(_, _)
SumOver(f, ids) ==
    IF ids = {} THEN 0
    ELSE LET i == CHOOSE j \in ids : TRUE
         IN  f[i] + SumOver(f, ids \ {i})

GetTrialBalance(asOfDate) ==
    LET active == FindAllActive
        debit == [id \in active |-> CalculateBalance(id, NoDate, asOfDate).debit]
        credit == [id \in active |-> CalculateBalance(id, NoDate, asOfDate).credit]
    IN  [totals |-> [debit |-> SumOver(debit, active), credit |-> SumOver(credit, active)]]

IsDebitNormal(type) == type \in {"ASSET", "EXPENSE"}

TrialBalanceAccount(accountId, asOfDate) ==
    LET balance == CalculateBalance(accountId, NoDate, asOfDate)
    IN  IF IsDebitNormal(accounts[accountId].type)
        THEN balance.debit - balance.credit
        ELSE balance.credit - balance.debit

GetAccountBalance(accountId) ==
    LET debitTotal == SumAmounts(journalEntries,
                         {i \in 1..Len(journalEntries) : journalEntries[i].debitAccountId = accountId})
        creditTotal == SumAmounts(journalEntries,
                         {i \in 1..Len(journalEntries) : journalEntries[i].creditAccountId = accountId})
    IN  IF accounts[accountId].type = "ASSET" \/ accounts[accountId].type = "LIABILITY"
        THEN debitTotal - creditTotal
        ELSE creditTotal - debitTotal

InReportPeriod(date, startDate, endDate) ==
    (startDate # NoDate /\ endDate # NoDate) => (date >= startDate /\ date <= endDate)

ProfitLossAccounts == {id \in 1..Len(accounts) : accounts[id].type \in {"REVENUE", "EXPENSE"} /\ accounts[id].isActive}

ProfitLossBalance(accountId, startDate, endDate) ==
    IF accounts[accountId].type = "REVENUE"
    THEN SumAmounts(journalEntries,
             {i \in 1..Len(journalEntries) :
                 /\ journalEntries[i].creditAccountId = accountId
                 /\ InReportPeriod(journalEntries[i].date, startDate, endDate)})
    ELSE SumAmounts(journalEntries,
             {i \in 1..Len(journalEntries) :
                 /\ journalEntries[i].debitAccountId = accountId
                 /\ InReportPeriod(journalEntries[i].date, startDate, endDate)})

CalculateAccountBalance(accountId, startDate, endDate) ==
    LET debitEntries == {i \in 1..Len(journalEntries) :
                            /\ journalEntries[i].debitAccountId = accountId
                            /\ InDateRange(journalEntries[i].date, startDate, endDate)}
        creditEntries == {i \in 1..Len(journalEntries) :
                            /\ journalEntries[i].creditAccountId = accountId
                            /\ InDateRange(journalEntries[i].date, startDate, endDate)}
        totalDebit == SumAmounts(journalEntries, debitEntries)
        totalCredit == SumAmounts(journalEntries, creditEntries)
    IN  [debit |-> totalDebit, credit |-> totalCredit, balance |-> totalDebit - totalCredit]

(***************************************************************************)
(* Cash register session manager: cashRegisterModel.js,                    *)
(* cashMovementModel.js (CashMovementModel and CashRegisterService).       *)
(*                                                                         *)
(* clock is the time of the latest timestamp taken.  Every timestamp       *)
(* (openedAt, closedAt, a movement's createdAt) is taken after a storage   *)
(* round trip that follows the previous one, so timestamps are strictly    *)
(* increasing in the order in which they are taken.                        *)
(***************************************************************************)
NewRegister ==
    [isOpen |-> FALSE, openingBalance |-> 0, currentBalance |-> 0, openedAt |-> NoTime,
     closedAt |-> NoTime, openedById |-> NoUser, closedById |-> NoUser]

Movement(registerId, type, amount, createdAt) ==
    [cashRegisterId |-> registerId, type |-> type, amount |-> amount, createdAt |-> createdAt]

RegisterExists(regs, registerId) == registerId \in DOMAIN regs

RegisterUpdateById(regs, registerId, updateData) ==
    [regs EXCEPT ![registerId] = ApplyPatch(@, updateData)]

FindOpenByUserId(regs, userId) == {r \in DOMAIN regs : regs[r].openedById = userId /\ regs[r].isOpen}

FindByDateRange_NoStart(movs, startDate, endDate, registerId) ==
    {i \in 1..Len(movs) :
        /\ movs[i].createdAt <= endDate
        /\ movs[i].cashRegisterId = registerId}

FindByDateRange(movs, startDate, endDate, registerId) ==
    {i \in 1..Len(movs) :
        /\ movs[i].createdAt >= startDate
        /\ movs[i].createdAt <= endDate
        /\ movs[i].cashRegisterId = registerId}

MovementEffect_CountsOpening(movement) ==
    CASE movement.type \in {"SALE", "DEPOSIT", "OPENING"} -> movement.amount
      [] movement.type \in {"RETURN", "WITHDRAWAL"} -> 0 - movement.amount
      [] OTHER -> 0

MovementEffect(movement) ==
    CASE movement.type \in {"SALE", "DEPOSIT"} -> movement.amount
      [] movement.type \in {"RETURN", "WITHDRAWAL"} -> 0 - movement.amount
      [] OTHER -> 0

RECURSIVE ReplayMovements(_, _)
ReplayMovements(movs, idx) ==
    IF idx = {} THEN 0
    ELSE LET i == CHOOSE j \in idx : TRUE
         IN  MovementEffect(movs[i]) + ReplayMovements(movs, idx \ {i})

ExpectedBalanceFrom(cashRegister, movs, now, registerId) ==
    IF cashRegister.openedAt = NoTime THEN 0
    ELSE cashRegister.openingBalance
            + ReplayMovements(movs, FindByDateRange(movs, cashRegister.openedAt, now, registerId))

CalculateExpectedBalance(registerId) ==
    ExpectedBalanceFrom(registers[registerId], movements, clock, registerId)

OpenError_NoUserCheck(regs, registerId, openingBalance, userId) ==
    IF ~RegisterExists(regs, registerId) THEN "Cash register not found"
    ELSE IF regs[registerId].isOpen THEN "Cash register is already open"
    ELSE IF openingBalance < 0 THEN "Opening balance cannot be negative"
    ELSE ""

OpenError(regs, registerId, openingBalance, userId) ==
    IF ~RegisterExists(regs, registerId) THEN "Cash register not found"
    ELSE IF regs[registerId].isOpen THEN "Cash register is already open"
    ELSE IF FindOpenByUserId(regs, userId) # {} THEN "User already has an open cash register"
    ELSE IF openingBalance < 0 THEN "Opening balance cannot be negative"
    ELSE ""

OpenCashRegister(registerId, openingBalance, userId) ==
    /\ LET err == OpenError(registers, registerId, openingBalance, userId)
       IN  IF err # ""
           THEN /\ response' = Fail("open", err)
                /\ UNCHANGED registerVars
           ELSE /\ Len(movements) < MaxMovements
                /\ registers' = RegisterUpdateById(registers, registerId,
                                    [isOpen |-> TRUE, openingBalance |-> openingBalance,
                                     currentBalance |-> openingBalance, openedAt |-> clock + 1,
                                     openedById |-> userId])
                /\ movements' = Append(movements, Movement(registerId, "OPENING", openingBalance, clock + 2))
                /\ clock' = clock + 2
                /\ response' = Ok("open")
    /\ UNCHANGED <<ledgerVars, requests, tradeVars>>

CloseError_NoOpenerCheck(regs, registerId, actualBalance, userId) ==
    IF ~RegisterExists(regs, registerId) THEN "Cash register not found"
    ELSE IF ~regs[registerId].isOpen THEN "Cash register is not open"
    ELSE IF actualBalance < 0 THEN "Actual balance cannot be negative"
    ELSE ""

CloseError(regs, registerId, actualBalance, userId) ==
    IF ~RegisterExists(regs, registerId) THEN "Cash register not found"
    ELSE IF ~regs[registerId].isOpen THEN "Cash register is not open"
    ELSE IF regs[registerId].openedById # userId THEN "Only the user who opened the register can close it"
    ELSE IF actualBalance < 0 THEN "Actual balance cannot be negative"
    ELSE ""

ClosureSummary_Reversed(openingBalance, expectedBalance, actualBalance) ==
    [openingBalance |-> openingBalance, expectedBalance |-> expectedBalance,
     actualBalance |-> actualBalance, difference |-> expectedBalance - actualBalance]

ClosureSummary(openingBalance, expectedBalance, actualBalance) ==
    [openingBalance |-> openingBalance, expectedBalance |-> expectedBalance,
     actualBalance |-> actualBalance, difference |-> actualBalance - expectedBalance]

CloseCashRegister(registerId, actualBalance, userId) ==
    /\ LET err == CloseError(registers, registerId, actualBalance, userId)
       IN  IF err # ""
           THEN /\ response' = Fail("close", err)
                /\ UNCHANGED registerVars
           ELSE LET expectedBalance == CalculateExpectedBalance(registerId)
                IN  /\ Len(movements) < MaxMovements
                    /\ movements' = Append(movements, Movement(registerId, "CLOSING", actualBalance, clock + 1))
                    /\ registers' = RegisterUpdateById(registers, registerId,
                                        [isOpen |-> FALSE, currentBalance |-> actualBalance,
                                         closedAt |-> clock + 2, closedById |-> userId])
                    /\ clock' = clock + 2
                    /\ response' = OkValue("close", ClosureSummary(registers[registerId].openingBalance,
                                                                   expectedBalance, actualBalance))
    /\ UNCHANGED <<ledgerVars, requests, tradeVars>>

RecordError_NoBalanceCheck(regs, registerId, amount, what, checkBalance) ==
    IF ~RegisterExists(regs, registerId) THEN "Cash register not found"
    ELSE IF ~regs[registerId].isOpen THEN "Cash register is not open"
    ELSE IF amount <= 0 THEN what
    ELSE ""

RecordError(regs, registerId, amount, what, checkBalance) ==
    IF ~RegisterExists(regs, registerId) THEN "Cash register not found"
    ELSE IF ~regs[registerId].isOpen THEN "Cash register is not open"
    ELSE IF amount <= 0 THEN what
    ELSE IF checkBalance /\ regs[registerId].currentBalance < amount THEN "Insufficient cash register balance"
    ELSE ""

RecordMovement_WritesBeforeChecks(op, type, sign, err, registerId, amount) ==
    /\ Len(movements) < MaxMovements
    /\ movements' = Append(movements, Movement(registerId, type, amount, clock + 1))
    /\ clock' = clock + 1
    /\ IF err # ""
       THEN /\ response' = Fail(op, err)
            /\ UNCHANGED registers
       ELSE /\ registers' = RegisterUpdateById(registers, registerId,
                                [currentBalance |-> registers[registerId].currentBalance + sign * amount])
            /\ response' = Ok(op)
    /\ UNCHANGED <<ledgerVars, requests, tradeVars>>

RecordMovement(op, type, sign, err, registerId, amount) ==
    /\ IF err # ""
       THEN /\ response' = Fail(op, err)
            /\ UNCHANGED registerVars
       ELSE /\ Len(movements) < MaxMovements
            /\ movements' = Append(movements, Movement(registerId, type, amount, clock + 1))
            /\ registers' = RegisterUpdateById(registers, registerId,
                                [currentBalance |-> registers[registerId].currentBalance + sign * amount])
            /\ clock' = clock + 1
            /\ response' = Ok(op)
    /\ UNCHANGED <<ledgerVars, requests, tradeVars>>

RecordDeposit(registerId, amount) ==
    RecordMovement("recordDeposit", "DEPOSIT", 1,
                   RecordError(registers, registerId, amount, "Deposit amount must be positive", FALSE),
                   registerId, amount)

RecordWithdrawal_AddsAmount(registerId, amount) ==
    RecordMovement("recordWithdrawal", "WITHDRAWAL", 1,
                   RecordError(registers, registerId, amount, "Withdrawal amount must be positive", TRUE),
                   registerId, amount)

RecordWithdrawal(registerId, amount) ==
    RecordMovement("recordWithdrawal", "WITHDRAWAL", -1,
                   RecordError(registers, registerId, amount, "Withdrawal amount must be positive", TRUE),
                   registerId, amount)

RecordSale(registerId, amount) ==
    RecordMovement("recordSale", "SALE", 1,
                   RecordError(registers, registerId, amount, "Sale amount must be positive", FALSE),
                   registerId, amount)

RecordReturn(registerId, amount) ==
    RecordMovement("recordReturn", "RETURN", -1,
                   RecordError(registers, registerId, amount, "Return amount must be positive", TRUE),
                   registerId, amount)

UpdateCashRegisterError(regs, registerId, updateData) ==
    IF "openingBalance" \in DOMAIN updateData /\ updateData.openingBalance < 0
    THEN "Validation failed: Opening balance cannot be negative"
    ELSE IF "currentBalance" \in DOMAIN updateData /\ updateData.currentBalance < 0
    THEN "Validation failed: Current balance cannot be negative"
    ELSE IF ~RegisterExists(regs, registerId) THEN "Cash register not found"
    ELSE ""

UpdateCashRegisterById(registerId, updateData) ==
    /\ LET err == UpdateCashRegisterError(registers, registerId, updateData)
       IN  IF err # ""
           THEN /\ response' = Fail("updateCashRegister", err)
                /\ UNCHANGED registers
           ELSE /\ registers' = RegisterUpdateById(registers, registerId, updateData)
                /\ response' = Ok("updateCashRegister")
    /\ UNCHANGED <<ledgerVars, movements, clock, requests, tradeVars>>

(***************************************************************************)
(* The same handlers, one storage call per step.  Each handler in Handlers *)
(* serves one request at a time; requests[h] holds its position (pc), its  *)
(* arguments and the register row it read (cashRegister).  Checks made on  *)
(* the row just read belong to the step that read it.                      *)
(***************************************************************************)
IdleRequest ==
    [pc |-> "idle", op |-> "", type |-> "", sign |-> 0, registerId |-> "", amount |-> 0,
     userId |-> NoUser, cashRegister |-> NewRegister, expectedBalance |-> 0]

PendingCreates == Cardinality({h \in DOMAIN requests : requests[h].pc \in {"create", "findOpen", "openUpdate", "openCreate", "closeExpected", "closeCreate"}})

StartRecord(h, op, type, sign, err, registerId, amount) ==
    /\ requests[h].pc = "idle"
    /\ IF err # ""
       THEN /\ response' = Fail(op, err)
            /\ UNCHANGED requests
       ELSE /\ Len(movements) + PendingCreates < MaxMovements
            /\ requests' = [requests EXCEPT ![h] =
                               [pc |-> "create", op |-> op, type |-> type, sign |-> sign,
                                registerId |-> registerId, amount |-> amount, userId |-> NoUser,
                                cashRegister |-> registers[registerId], expectedBalance |-> 0]]
            /\ UNCHANGED response
    /\ UNCHANGED <<ledgerVars, registerVars, tradeVars>>

StartRecordDeposit(h, registerId, amount) ==
    StartRecord(h, "recordDeposit", "DEPOSIT", 1,
                RecordError(registers, registerId, amount, "Deposit amount must be positive", FALSE),
                registerId, amount)

StartRecordWithdrawal(h, registerId, amount) ==
    StartRecord(h, "recordWithdrawal", "WITHDRAWAL", -1,
                RecordError(registers, registerId, amount, "Withdrawal amount must be positive", TRUE),
                registerId, amount)

StartRecordSale(h, registerId, amount) ==
    StartRecord(h, "recordSale", "SALE", 1,
                RecordError(registers, registerId, amount, "Sale amount must be positive", FALSE),
                registerId, amount)

StartRecordReturn(h, registerId, amount) ==
    StartRecord(h, "recordReturn", "RETURN", -1,
                RecordError(registers, registerId, amount, "Return amount must be positive", TRUE),
                registerId, amount)

CreateMovementStep(h) ==
    /\ requests[h].pc = "create"
    /\ movements' = Append(movements, Movement(requests[h].registerId, requests[h].type,
                                               requests[h].amount, clock + 1))
    /\ clock' = clock + 1
    /\ requests' = [requests EXCEPT ![h].pc = "update"]
    /\ UNCHANGED <<ledgerVars, registers, response, tradeVars>>

UpdateBalanceStep(h) ==
    /\ requests[h].pc = "update"
    /\ registers' = RegisterUpdateById(registers, requests[h].registerId,
                        [currentBalance |-> requests[h].cashRegister.currentBalance
                                               + requests[h].sign * requests[h].amount])
    /\ response' = Ok(requests[h].op)
    /\ requests' = [requests EXCEPT ![h] = IdleRequest]
    /\ UNCHANGED <<ledgerVars, movements, clock, tradeVars>>

StartOpen(h, registerId, openingBalance, userId) ==
    /\ requests[h].pc = "idle"
    /\ IF ~RegisterExists(registers, registerId)
       THEN /\ response' = Fail("open", "Cash register not found")
            /\ UNCHANGED requests
       ELSE IF registers[registerId].isOpen
       THEN /\ response' = Fail("open", "Cash register is already open")
            /\ UNCHANGED requests
       ELSE /\ Len(movements) + PendingCreates < MaxMovements
            /\ requests' = [requests EXCEPT ![h] =
                               [pc |-> "findOpen", op |-> "open", type |-> "OPENING", sign |-> 0,
                                registerId |-> registerId, amount |-> openingBalance, userId |-> userId,
                                cashRegister |-> registers[registerId], expectedBalance |-> 0]]
            /\ UNCHANGED response
    /\ UNCHANGED <<ledgerVars, registerVars, tradeVars>>

FindOpenStep(h) ==
    /\ requests[h].pc = "findOpen"
    /\ IF FindOpenByUserId(registers, requests[h].userId) # {}
       THEN /\ response' = Fail("open", "User already has an open cash register")
            /\ requests' = [requests EXCEPT ![h] = IdleRequest]
       ELSE IF requests[h].amount < 0
       THEN /\ response' = Fail("open", "Opening balance cannot be negative")
            /\ requests' = [requests EXCEPT ![h] = IdleRequest]
       ELSE /\ requests' = [requests EXCEPT ![h].pc = "openUpdate"]
            /\ UNCHANGED response
    /\ UNCHANGED <<ledgerVars, registerVars, tradeVars>>

OpenUpdateStep(h) ==
    /\ requests[h].pc = "openUpdate"
    /\ registers' = RegisterUpdateById(registers, requests[h].registerId,
                        [isOpen |-> TRUE, openingBalance |-> requests[h].amount,
                         currentBalance |-> requests[h].amount, openedAt |-> clock + 1,
                         openedById |-> requests[h].userId])
    /\ clock' = clock + 1
    /\ requests' = [requests EXCEPT ![h].pc = "openCreate"]
    /\ UNCHANGED <<ledgerVars, movements, response, tradeVars>>

OpenCreateStep(h) ==
    /\ requests[h].pc = "openCreate"
    /\ movements' = Append(movements, Movement(requests[h].registerId, "OPENING",
                                               requests[h].amount, clock + 1))
    /\ clock' = clock + 1
    /\ response' = Ok("open")
    /\ requests' = [requests EXCEPT ![h] = IdleRequest]
    /\ UNCHANGED <<ledgerVars, registers, tradeVars>>

StartClose(h, registerId, actualBalance, userId) ==
    /\ requests[h].pc = "idle"
    /\ LET err == CloseError(registers, registerId, actualBalance, userId)
       IN  IF err # ""
           THEN /\ response' = Fail("close", err)
                /\ UNCHANGED requests
           ELSE /\ Len(movements) + PendingCreates < MaxMovements
                /\ requests' = [requests EXCEPT ![h] =
                                   [pc |-> "closeExpected", op |-> "close", type |-> "CLOSING", sign |-> 0,
                                    registerId |-> registerId, amount |-> actualBalance, userId |-> userId,
                                    cashRegister |-> registers[registerId], expectedBalance |-> 0]]
                /\ UNCHANGED response
    /\ UNCHANGED <<ledgerVars, registerVars, tradeVars>>

CloseExpectedStep(h) ==
    /\ requests[h].pc = "closeExpected"
    /\ requests' = [requests EXCEPT ![h].pc = "closeCreate",
                                    ![h].expectedBalance = CalculateExpectedBalance(requests[h].registerId)]
    /\ UNCHANGED <<ledgerVars, registerVars, response, tradeVars>>

CloseCreateStep(h) ==
    /\ requests[h].pc = "closeCreate"
    /\ movements' = Append(movements, Movement(requests[h].registerId, "CLOSING",
                                               requests[h].amount, clock + 1))
    /\ clock' = clock + 1
    /\ requests' = [requests EXCEPT ![h].pc = "closeUpdate"]
    /\ UNCHANGED <<ledgerVars, registers, response, tradeVars>>

CloseUpdateStep(h) ==
    /\ requests[h].pc = "closeUpdate"
    /\ registers' = RegisterUpdateById(registers, requests[h].registerId,
                        [isOpen |-> FALSE, currentBalance |-> requests[h].amount,
                         closedAt |-> clock + 1, closedById |-> requests[h].userId])
    /\ clock' = clock + 1
    /\ response' = OkValue("close", ClosureSummary(requests[h].cashRegister.openingBalance,
                                                   requests[h].expectedBalance, requests[h].amount))
    /\ requests' = [requests EXCEPT ![h] = IdleRequest]
    /\ UNCHANGED <<ledgerVars, movements, tradeVars>>

(***************************************************************************)
(* Transaction posting: saleService.js, returnService.js,                  *)
(* purchaseService.js and the posting rules of journalService.js.          *)
(*                                                                         *)
(* One product is traded; stock is its stock.  A sale, a return or a       *)
(* purchase holds one item line (quantity, unitPrice); discounts are of    *)
(* type 'fixed' and tax is 0.  Document ids are the positions in sales,    *)
(* returns and purchases.                                                  *)
(***************************************************************************)
NoMethod == "undefined"

InheritedKeys == {"constructor", "toString"}

NoCode == "[object]"

PostingDate == CHOOSE d \in Dates : \A e \in Dates : e <= d

GetCashAccountCode(paymentMethod) ==
    CASE paymentMethod = "cash" -> "1001"
      [] paymentMethod \in {"card", "bank_transfer"} -> "1002"
      [] paymentMethod = "check" -> "1003"
      [] paymentMethod = "digital_wallet" -> "1004"
      [] paymentMethod \in InheritedKeys -> NoCode
      [] OTHER -> "1001"

AccountIdOf(code) == CHOOSE id \in FindByCode(code) : TRUE

PostingEntry(kind, id, debitCode, creditCode, total, userId) ==
    [date |-> PostingDate, description |-> EntryDescription(kind, id),
     debitAccountId |-> AccountIdOf(debitCode), creditAccountId |-> AccountIdOf(creditCode),
     amount |-> total, userId |-> userId]

PostingError(kind, id, debitCode, creditCode, total, userId) ==
    IF debitCode = NoCode \/ creditCode = NoCode THEN "Failed to find account by code"
    ELSE IF FindByCode(debitCode) = {} \/ FindByCode(creditCode) = {}
    THEN "Required accounts not found"
    ELSE CreateJournalEntryError(PostingEntry(kind, id, debitCode, creditCode, total, userId))

CreateSaleJournalEntriesError(saleId, total, paymentMethod, userId) ==
    PostingError("sale", saleId, GetCashAccountCode(paymentMethod), "4000", total, userId)

CreateSaleJournalEntries(saleId, total, paymentMethod, userId) ==
    PostingEntry("sale", saleId, GetCashAccountCode(paymentMethod), "4000", total, userId)

CreateReturnJournalEntriesError(returnId, total, paymentMethod, userId) ==
    PostingError("return", returnId, "4000", GetCashAccountCode(paymentMethod), total, userId)

CreateReturnJournalEntries(returnId, total, paymentMethod, userId) ==
    PostingEntry("return", returnId, "4000", GetCashAccountCode(paymentMethod), total, userId)

CreatePurchaseJournalEntriesError(purchaseId, total, userId) ==
    PostingError("purchase", purchaseId, "1200", "2000", total, userId)

CreatePurchaseJournalEntries(purchaseId, total, userId) ==
    PostingEntry("purchase", purchaseId, "1200", "2000", total, userId)

Documents == Len(sales) + Len(returns) + Len(purchases)

CreateSaleError(saleData) ==
    IF stock < saleData.quantity THEN "Insufficient stock"
    ELSE IF saleData.paymentAmount < saleData.quantity * saleData.unitPrice - saleData.discount
    THEN "Payment amount is less than total"
    ELSE ""

CreateSale_FailsWithPosting(saleData) ==
    /\ LET err == CreateSaleError(saleData)
           total == saleData.quantity * saleData.unitPrice - saleData.discount
           saleId == Len(sales) + 1
           journalError == CreateSaleJournalEntriesError(saleId, total, saleData.paymentMethod, saleData.userId)
       IN  IF err # ""
           THEN /\ response' = Fail("createSale", err)
                /\ UNCHANGED <<sales, stock, journalEntries>>
           ELSE /\ Documents < MaxDocuments
                /\ sales' = Append(sales, [userId |-> saleData.userId, total |-> total,
                                           status |-> "COMPLETED", quantity |-> saleData.quantity,
                                           unitPrice |-> saleData.unitPrice])
                /\ stock' = stock - saleData.quantity
                /\ IF journalError # ""
                   THEN /\ UNCHANGED journalEntries
                        /\ response' = Fail("createSale", journalError)
                   ELSE /\ journalEntries' = Append(journalEntries,
                               CreateSaleJournalEntries(saleId, total, saleData.paymentMethod, saleData.userId))
                        /\ response' = OkValue("createSale", [id |-> saleId, total |-> total,
                                                              method |-> saleData.paymentMethod])
    /\ UNCHANGED <<accounts, registerVars, requests, returns, purchases>>

CreateSale(saleData) ==
    /\ LET err == CreateSaleError(saleData)
           total == saleData.quantity * saleData.unitPrice - saleData.discount
           saleId == Len(sales) + 1
           journalError == CreateSaleJournalEntriesError(saleId, total, saleData.paymentMethod, saleData.userId)
       IN  IF err # ""
           THEN /\ response' = Fail("createSale", err)
                /\ UNCHANGED <<sales, stock, journalEntries>>
           ELSE /\ Documents < MaxDocuments
                /\ sales' = Append(sales, [userId |-> saleData.userId, total |-> total,
                                           status |-> "COMPLETED", quantity |-> saleData.quantity,
                                           unitPrice |-> saleData.unitPrice])
                /\ stock' = stock - saleData.quantity
                /\ IF journalError # ""
                   THEN UNCHANGED journalEntries
                   ELSE journalEntries' = Append(journalEntries,
                            CreateSaleJournalEntries(saleId, total, saleData.paymentMethod, saleData.userId))
                /\ response' = OkValue("createSale", [id |-> saleId, total |-> total,
                                                      method |-> saleData.paymentMethod])
    /\ UNCHANGED <<accounts, registerVars, requests, returns, purchases>>

SalePaymentMethod(sale) == IF "paymentMethod" \in DOMAIN sale THEN sale.paymentMethod ELSE NoMethod

ProcessRefundPosts(returnId, returnObj, sale) ==
    CreateReturnJournalEntriesError(returnId, returnObj.total, SalePaymentMethod(sale), returnObj.userId) = ""

ProcessRefund(returnId, returnObj, sale) ==
    /\ stock' = stock + returnObj.quantity
    /\ IF ProcessRefundPosts(returnId, returnObj, sale)
       THEN journalEntries' = Append(journalEntries,
                CreateReturnJournalEntries(returnId, returnObj.total, SalePaymentMethod(sale), returnObj.userId))
       ELSE UNCHANGED journalEntries

CreateReturnError(returnData) ==
    IF returnData.saleId \notin 1..Len(sales) THEN "Sale not found"
    ELSE IF sales[returnData.saleId].status # "COMPLETED" THEN "Can only return completed sales"
    ELSE IF returnData.quantity > sales[returnData.saleId].quantity THEN "Cannot return more than sold"
    ELSE ""

CreateReturn(returnData) ==
    /\ LET err == CreateReturnError(returnData)
           returnId == Len(returns) + 1
       IN  IF err # ""
           THEN /\ response' = Fail("createReturn", err)
                /\ UNCHANGED <<returns, stock, journalEntries>>
           ELSE LET sale == sales[returnData.saleId]
                    returnObj == [saleId |-> returnData.saleId, userId |-> returnData.userId,
                                  total |-> returnData.quantity * sale.unitPrice,
                                  status |-> "PENDING", quantity |-> returnData.quantity]
                IN  /\ Documents < MaxDocuments
                    /\ IF returnData.refundType = "refund"
                       THEN /\ returns' = Append(returns, returnObj)
                            /\ ProcessRefund(returnId, returnObj, sale)
                       ELSE /\ returns' = Append(returns, [returnObj EXCEPT !.status = "COMPLETED"])
                            /\ stock' = stock + returnObj.quantity
                            /\ UNCHANGED journalEntries
                    /\ response' = OkValue("createReturn", [id |-> returnId, total |-> returnObj.total])
    /\ UNCHANGED <<accounts, registerVars, requests, sales, purchases>>

ApproveReturnError(returnId) ==
    IF returnId \notin 1..Len(returns) THEN "Return not found"
    ELSE IF returns[returnId].status # "PENDING" THEN "Return is not in pending status"
    ELSE ""

ApproveReturn(returnId) ==
    /\ LET err == ApproveReturnError(returnId)
       IN  IF err # ""
           THEN /\ response' = Fail("approveReturn", err)
                /\ UNCHANGED <<returns, stock, journalEntries>>
           ELSE /\ ProcessRefund(returnId, returns[returnId], sales[returns[returnId].saleId])
                /\ returns' = [returns EXCEPT ![returnId].status = "APPROVED"]
                /\ response' = OkValue("approveReturn", [id |-> returnId, total |-> returns[returnId].total])
    /\ UNCHANGED <<accounts, registerVars, requests, sales, purchases>>

RejectReturn(returnId) ==
    /\ LET err == ApproveReturnError(returnId)
       IN  IF err # ""
           THEN /\ response' = Fail("rejectReturn", err)
                /\ UNCHANGED returns
           ELSE /\ returns' = [returns EXCEPT ![returnId].status = "REJECTED"]
                /\ response' = OkValue("rejectReturn", [id |-> returnId, total |-> returns[returnId].total])
    /\ UNCHANGED <<ledgerVars, registerVars, requests, sales, purchases, stock>>

CreatePurchaseError(purchaseData) ==
    IF purchaseData.quantity <= 0 THEN "Invalid quantity"
    ELSE IF purchaseData.unitPrice <= 0 THEN "Invalid unit price"
    ELSE ""

CreatePurchase(purchaseData, userId) ==
    /\ LET err == CreatePurchaseError(purchaseData)
       IN  IF err # ""
           THEN /\ response' = Fail("createPurchase", err)
                /\ UNCHANGED purchases
           ELSE /\ Documents < MaxDocuments
                /\ purchases' = Append(purchases, [userId |-> userId,
                                                   total |-> purchaseData.quantity * purchaseData.unitPrice,
                                                   status |-> "PENDING", quantity |-> purchaseData.quantity])
                /\ response' = OkValue("createPurchase", [id |-> Len(purchases) + 1,
                                           total |-> purchaseData.quantity * purchaseData.unitPrice])
    /\ UNCHANGED <<ledgerVars, registerVars, requests, sales, returns, stock>>

CompletePurchaseError(purchaseId) ==
    IF purchaseId \notin 1..Len(purchases) THEN "Purchase not found"
    ELSE IF purchases[purchaseId].status # "PENDING" THEN "Only pending purchases can be completed"
    ELSE ""

CompletePurchase(purchaseId) ==
    /\ LET err == CompletePurchaseError(purchaseId)
       IN  IF err # ""
           THEN /\ response' = Fail("completePurchase", err)
                /\ UNCHANGED <<purchases, stock>>
           ELSE /\ stock' = stock + purchases[purchaseId].quantity
                /\ purchases' = [purchases EXCEPT ![purchaseId].status = "COMPLETED"]
                /\ response' = OkValue("completePurchase", [id |-> purchaseId, total |-> purchases[purchaseId].total])
    /\ UNCHANGED <<ledgerVars, registerVars, requests, sales, returns>>

Chart(codes) ==
    [i \in 1..Len(codes) |->
        [code |-> codes[i], type |-> AccountTypeOf[codes[i]], parentId |-> NoId, isActive |-> TRUE]]

(***************************************************************************)
(* Specification of the ledger: account registry and journal postings       *)
(***************************************************************************)
AccountInputs == {[code |-> c, type |-> AccountTypeOf[c], parentId |-> p] : c \in Codes, p \in ParentInputs}

AccountPatches ==
    {[isActive |-> b] : b \in BOOLEAN} \cup {[parentId |-> p] : p \in ParentInputs}

EntryInputs ==
    [date : Dates, description : {ManualEntry}, debitAccountId : AccountIdInputs,
     creditAccountId : AccountIdInputs, amount : EntryAmounts, userId : EntryUsers]

Init ==
    /\ accounts = <<>>
    /\ journalEntries = <<>>
    /\ registers = [r \in Registers |-> NewRegister]
    /\ movements = <<>>
    /\ clock = 0
    /\ requests = [h \in Handlers |-> IdleRequest]
    /\ sales = <<>>
    /\ returns = <<>>
    /\ purchases = <<>>
    /\ stock = 0
    /\ response = Ok("init")

NextLedger ==
    \/ \E accountData \in AccountInputs : CreateAccount(accountData)
    \/ \E accountId \in AccountIdInputs, updateData \in AccountPatches : UpdateAccountById(accountId, updateData)
    \/ \E accountId \in AccountIdInputs : DeleteAccountById(accountId)
    \/ \E entryData \in EntryInputs : CreateJournalEntry(entryData)

SpecLedger == Init /\ [][NextLedger]_vars

(***************************************************************************)
(* Specification of the account tree: accounts are created, re-parented,   *)
(* deactivated and reactivated; any existing account can be named as a     *)
(* parent                                                                  *)
(***************************************************************************)
TreeParentInputs == {NoId} \cup AccountIdInputs

TreeAccountInputs == {[code |-> c, type |-> AccountTypeOf[c], parentId |-> p] : c \in Codes, p \in TreeParentInputs}

TreeAccountPatches ==
    {[isActive |-> b] : b \in BOOLEAN} \cup {[parentId |-> p] : p \in TreeParentInputs}

NextAccounts ==
    \/ \E accountData \in TreeAccountInputs : CreateAccount(accountData)
    \/ \E accountId \in AccountIdInputs, updateData \in TreeAccountPatches : UpdateAccountById(accountId, updateData)
    \/ \E accountId \in AccountIdInputs : DeleteAccountById(accountId)

SpecAccounts == Init /\ [][NextAccounts]_vars

(***************************************************************************)
(* Specification of the journal: postings with the update and delete       *)
(* requests of the journal service, over accounts that are created and     *)
(* deactivated                                                             *)
(***************************************************************************)
EntryIdInputs == 1..(MaxEntries + 1)

JournalPatches ==
    {[debitAccountId |-> a] : a \in AccountIdInputs}
       \cup {[creditAccountId |-> a] : a \in AccountIdInputs}
       \cup {[amount |-> n] : n \in EntryAmounts}
       \cup {[debitAccountId |-> a, creditAccountId |-> b] : a \in AccountIdInputs, b \in AccountIdInputs}

NextJournal ==
    \/ \E accountData \in AccountInputs : CreateAccount(accountData)
    \/ \E accountId \in AccountIdInputs : DeleteAccountById(accountId)
    \/ \E entryData \in EntryInputs : CreateJournalEntry(entryData)
    \/ \E entryId \in EntryIdInputs, updateData \in JournalPatches : UpdateJournalEntryById(entryId, updateData)
    \/ \E entryId \in EntryIdInputs : DeleteJournalEntryById(entryId)

SpecJournal == Init /\ [][NextJournal]_vars

(***************************************************************************)
(* Specification of the balance reports: postings over a chart that holds  *)
(* one account of every type                                               *)
(***************************************************************************)
ReportChart == Chart(<<"1200", "2000", "3000", "4000", "5000">>)

ReportEntryInputs ==
    [date : Dates, description : {ManualEntry}, debitAccountId : 1..Len(ReportChart),
     creditAccountId : 1..Len(ReportChart), amount : {150}, userId : {"u1"}]

InitReports ==
    /\ accounts = ReportChart
    /\ journalEntries = <<>>
    /\ registers = [r \in Registers |-> NewRegister]
    /\ movements = <<>>
    /\ clock = 0
    /\ requests = [h \in Handlers |-> IdleRequest]
    /\ sales = <<>>
    /\ returns = <<>>
    /\ purchases = <<>>
    /\ stock = 0
    /\ response = Ok("init")

NextReports ==
    \/ \E entryData \in ReportEntryInputs : CreateJournalEntry(entryData)
    \/ \E accountId \in 1..Len(ReportChart) : DeleteAccountById(accountId)

SpecReports == InitReports /\ [][NextReports]_vars

(***************************************************************************)
(* Specification of the cash register: requests run one after another       *)
(***************************************************************************)
SessionRequest(registerInputs) ==
    \/ \E registerId \in registerInputs, openingBalance \in OpeningBalances, userId \in Users :
          OpenCashRegister(registerId, openingBalance, userId)
    \/ \E registerId \in registerInputs, actualBalance \in ActualBalances, userId \in Users :
          CloseCashRegister(registerId, actualBalance, userId)
    \/ \E registerId \in registerInputs, amount \in DepositAmounts : RecordDeposit(registerId, amount)
    \/ \E registerId \in registerInputs, amount \in WithdrawalAmounts : RecordWithdrawal(registerId, amount)
    \/ \E registerId \in registerInputs, amount \in SaleAmounts : RecordSale(registerId, amount)
    \/ \E registerId \in registerInputs, amount \in ReturnAmounts : RecordReturn(registerId, amount)

NextSession == SessionRequest(RegisterInputs)

SpecRegister == Init /\ [][NextSession]_vars

(***************************************************************************)
(* Specification of the cash register with the generic update route         *)
(* (PUT /:registerId), whose body reaches the storage update as it is.      *)
(***************************************************************************)
AdminRegisterInputs == {"r1", "r0"}

RegisterPatches == {[isOpen |-> b] : b \in BOOLEAN} \cup {[currentBalance |-> c] : c \in {-10, 30}}

NextAdmin ==
    \/ SessionRequest(AdminRegisterInputs)
    \/ \E registerId \in AdminRegisterInputs, updateData \in RegisterPatches :
          UpdateCashRegisterById(registerId, updateData)

SpecRegisterAdmin == Init /\ [][NextAdmin]_vars

(***************************************************************************)
(* Specification of concurrent cash movements: open is one step, the        *)
(* record* handlers of two requests interleave storage call by storage call *)
(***************************************************************************)
NextRecordSteps ==
    \/ \E registerId \in Registers, openingBalance \in OpeningBalances, userId \in Users :
          OpenCashRegister(registerId, openingBalance, userId)
    \/ \E h \in Handlers, registerId \in RegisterInputs, amount \in DepositAmounts :
          StartRecordDeposit(h, registerId, amount)
    \/ \E h \in Handlers, registerId \in RegisterInputs, amount \in WithdrawalAmounts :
          StartRecordWithdrawal(h, registerId, amount)
    \/ \E h \in Handlers, registerId \in RegisterInputs, amount \in SaleAmounts :
          StartRecordSale(h, registerId, amount)
    \/ \E h \in Handlers, registerId \in RegisterInputs, amount \in ReturnAmounts :
          StartRecordReturn(h, registerId, amount)
    \/ \E h \in Handlers : CreateMovementStep(h)
    \/ \E h \in Handlers : UpdateBalanceStep(h)

SpecRecordSteps == Init /\ [][NextRecordSteps]_vars

(***************************************************************************)
(* Specification of concurrent opens: the open handlers of two requests     *)
(* interleave storage call by storage call                                  *)
(***************************************************************************)
NextOpenSteps ==
    \/ \E h \in Handlers, registerId \in RegisterInputs, openingBalance \in OpeningBalances, userId \in Users :
          StartOpen(h, registerId, openingBalance, userId)
    \/ \E h \in Handlers : FindOpenStep(h)
    \/ \E h \in Handlers : OpenUpdateStep(h)
    \/ \E h \in Handlers : OpenCreateStep(h)
    \/ \E registerId \in Registers, actualBalance \in ActualBalances, userId \in Users :
          CloseCashRegister(registerId, actualBalance, userId)

SpecOpenSteps == Init /\ [][NextOpenSteps]_vars

(***************************************************************************)
(* Specification of a close among cash movements: open is one step, the     *)
(* close handler and the record* handlers interleave storage call by        *)
(* storage call on one register                                             *)
(***************************************************************************)
CloseRegisterInputs == {"r1"}

NextCloseSteps ==
    \/ \E registerId \in CloseRegisterInputs, openingBalance \in OpeningBalances, userId \in Users :
          OpenCashRegister(registerId, openingBalance, userId)
    \/ \E h \in Handlers, registerId \in CloseRegisterInputs, amount \in DepositAmounts :
          StartRecordDeposit(h, registerId, amount)
    \/ \E h \in Handlers, registerId \in CloseRegisterInputs, amount \in WithdrawalAmounts :
          StartRecordWithdrawal(h, registerId, amount)
    \/ \E h \in Handlers, registerId \in CloseRegisterInputs, amount \in SaleAmounts :
          StartRecordSale(h, registerId, amount)
    \/ \E h \in Handlers, registerId \in CloseRegisterInputs, amount \in ReturnAmounts :
          StartRecordReturn(h, registerId, amount)
    \/ \E h \in Handlers : CreateMovementStep(h)
    \/ \E h \in Handlers : UpdateBalanceStep(h)
    \/ \E h \in Handlers, registerId \in CloseRegisterInputs, actualBalance \in ActualBalances, userId \in Users :
          StartClose(h, registerId, actualBalance, userId)
    \/ \E h \in Handlers : CloseExpectedStep(h)
    \/ \E h \in Handlers : CloseCreateStep(h)
    \/ \E h \in Handlers : CloseUpdateStep(h)

SpecCloseSteps == Init /\ [][NextCloseSteps]_vars

(***************************************************************************)
(* Specification of transaction posting: sales, returns and purchases over *)
(* a chart of accounts that is already set up, requests running one after  *)
(* another                                                                 *)
(***************************************************************************)
PaymentMethods == {"cash", "card", "bank_transfer", "check", "digital_wallet", "crypto", "constructor"}

DocumentIds == 1..(MaxDocuments + 1)

SaleInputs ==
    [quantity : {1}, unitPrice : {200}, discount : {0, 200}, paymentMethod : PaymentMethods,
     paymentAmount : {200}, userId : {"u1"}]

ReturnInputs == [saleId : DocumentIds, quantity : {1}, refundType : {"refund", "exchange"}, userId : {"u1"}]

PurchaseInputs == [quantity : {1}, unitPrice : {0, 150}]

ChartOptions ==
    {Chart(<<"1001", "1002", "1003", "1004", "1200", "2000", "4000">>),
     Chart(<<"1200", "2000", "4000">>)}

InitialStock == 2

InitPosting ==
    /\ accounts \in ChartOptions
    /\ journalEntries = <<>>
    /\ registers = [r \in Registers |-> NewRegister]
    /\ movements = <<>>
    /\ clock = 0
    /\ requests = [h \in Handlers |-> IdleRequest]
    /\ sales = <<>>
    /\ returns = <<>>
    /\ purchases = <<>>
    /\ stock = InitialStock
    /\ response = Ok("init")

NextPosting ==
    \/ \E saleData \in SaleInputs : CreateSale(saleData)
    \/ \E returnData \in ReturnInputs : CreateReturn(returnData)
    \/ \E returnId \in DocumentIds : ApproveReturn(returnId)
    \/ \E returnId \in DocumentIds : RejectReturn(returnId)
    \/ \E purchaseData \in PurchaseInputs : CreatePurchase(purchaseData, "u1")
    \/ \E purchaseId \in DocumentIds : CompletePurchase(purchaseId)
    \/ DeleteAccountById(1)
    \/ OpenCashRegister("r1", 100, "u1")

SpecPosting == InitPosting /\ [][NextPosting]_vars

(***************************************************************************)
(* Properties of the ledger                                                *)
(***************************************************************************)
DateBounds == {NoDate} \cup Dates

AllAccounts == 1..Len(accounts)

RawDebitTotal(startDate, endDate) ==
    SumOver([id \in AllAccounts |-> CalculateBalance(id, startDate, endDate).debit], AllAccounts)

RawCreditTotal(startDate, endDate) ==
    SumOver([id \in AllAccounts |-> CalculateBalance(id, startDate, endDate).credit], AllAccounts)

\* C1: every createJournalEntry call either succeeds and appends exactly one
\* entry, which has debitAccountId # creditAccountId and amount > 0, or
\* fails and leaves the stored journal entries as they were.
C1_PostEntryValidOrNothingWritten ==
    [][response'.op = "createJournalEntry" =>
          IF response'.ok
          THEN /\ Len(journalEntries') = Len(journalEntries) + 1
               /\ SubSeq(journalEntries', 1, Len(journalEntries)) = journalEntries
               /\ LET entry == journalEntries'[Len(journalEntries')]
                  IN  /\ entry.debitAccountId # entry.creditAccountId
                      /\ entry.amount > 0
          ELSE journalEntries' = journalEntries]_vars

\* C1 witness: a posting was rejected for debit = credit after an earlier
\* posting had been written.
C1_Witness ==
    /\ response.op = "createJournalEntry"
    /\ ~response.ok
    /\ response.err = "Debit and credit accounts must be different"
    /\ Len(journalEntries) >= 1

\* C2: over all accounts, active or not, and for every date window, the raw
\* debit totals of calculateBalance add up to the raw credit totals.
C2_LedgerSelfBalances ==
    \A startDate \in DateBounds, endDate \in DateBounds :
        RawDebitTotal(startDate, endDate) = RawCreditTotal(startDate, endDate)

\* C2 witness: two entries of different dates are stored, one account is
\* inactive, and a date window selects only part of the ledger.
C2_Witness ==
    /\ Len(journalEntries) = 2
    /\ \E id \in AllAccounts : ~accounts[id].isActive
    /\ RawDebitTotal(NoDate, NoDate) = 3
    /\ RawDebitTotal(NoDate, 1) = 1

\* C3: for every asOf date the trial balance's debit total equals its credit
\* total.
C3_TrialBalanceBalances ==
    \A asOfDate \in Dates :
        GetTrialBalance(asOfDate).totals.debit = GetTrialBalance(asOfDate).totals.credit

(***************************************************************************)
(* Properties of the cash register, requests running one after another     *)
(***************************************************************************)
SessionMovements(regs, movs, registerId) ==
    SelectSeq(movs, LAMBDA m : m.cashRegisterId = registerId /\ m.createdAt >= regs[registerId].openedAt)

Shape(movs) == [i \in 1..Len(movs) |-> <<movs[i].type, movs[i].amount>>]

\* C4: whenever a register is open and no request is in progress, the
\* expected balance recomputed from the movement log equals currentBalance.
C4_ExpectedEqualsCurrent ==
    \A registerId \in Registers :
        registers[registerId].isOpen =>
            CalculateExpectedBalance(registerId) = registers[registerId].currentBalance

\* C4 witness: r1 was opened with 100, a sale of 50 and then a withdrawal of
\* 30 were recorded, and the withdrawal was the latest call.
C4_Witness ==
    /\ response.op = "recordWithdrawal"
    /\ response.ok
    /\ registers["r1"].isOpen
    /\ registers["r1"].currentBalance = 120
    /\ Shape(SessionMovements(registers, movements, "r1"))
          = <<(<<"OPENING", 100>>), (<<"SALE", 50>>), (<<"WITHDRAWAL", 30>>)>>

\* C6: a successful close returns difference = actualBalance - the expected
\* balance computed from the log in the state before the close wrote
\* anything; after OPENING 100, SALE 50, WITHDRAWAL 30 a close with 120
\* returns expectedBalance 120 and difference 0.
C6_CloseDifference ==
    [][(response'.op = "close" /\ response'.ok) =>
       \A registerId \in Registers, actualBalance \in ActualBalances, userId \in Users :
          CloseCashRegister(registerId, actualBalance, userId) =>
              /\ response'.value.actualBalance = actualBalance
              /\ response'.value.expectedBalance = CalculateExpectedBalance(registerId)
              /\ response'.value.difference = actualBalance - CalculateExpectedBalance(registerId)
              /\ (/\ actualBalance = 120
                  /\ Shape(SessionMovements(registers, movements, registerId))
                        = <<(<<"OPENING", 100>>), (<<"SALE", 50>>), (<<"WITHDRAWAL", 30>>)>>)
                 => (response'.value.expectedBalance = 120 /\ response'.value.difference = 0)]_vars

\* C6 witness: the concrete scenario has been closed with difference 0.
C6_Witness ==
    /\ response.op = "close"
    /\ response.ok
    /\ response.value.expectedBalance = 120
    /\ response.value.difference = 0
    /\ Shape(SessionMovements(registers, movements, "r1"))
          = <<(<<"OPENING", 100>>), (<<"SALE", 50>>), (<<"WITHDRAWAL", 30>>), (<<"CLOSING", 120>>)>>

\* C7: right after a successful open the register is open, currentBalance,
\* openingBalance and the recomputed expected balance all equal the opening
\* balance passed in, and the session holds exactly one movement, an
\* OPENING of that amount.
C7_OpenSetsBalances ==
    [][(response'.op = "open" /\ response'.ok) =>
       \A registerId \in Registers, openingBalance \in OpeningBalances, userId \in Users :
          OpenCashRegister(registerId, openingBalance, userId) =>
              /\ registers'[registerId].isOpen
              /\ registers'[registerId].currentBalance = openingBalance
              /\ registers'[registerId].openingBalance = openingBalance
              /\ ExpectedBalanceFrom(registers'[registerId], movements', clock', registerId) = openingBalance
              /\ Len(movements') = Len(movements) + 1
              /\ Shape(SessionMovements(registers', movements', registerId)) = <<(<<"OPENING", openingBalance>>)>>]_vars

\* C7 witness: r1 is opened again after an earlier session that recorded a
\* sale and was closed with 120.
C7_Witness ==
    /\ response.op = "open"
    /\ response.ok
    /\ registers["r1"].isOpen
    /\ registers["r1"].closedAt # NoTime
    /\ registers["r1"].currentBalance = 100
    /\ \E i \in 1..Len(movements) : movements[i].cashRegisterId = "r1" /\ movements[i].type = "SALE"

\* C8: no user is the opener of more than one open register, and an open by
\* a user who already holds a different open register fails and changes
\* neither the registers nor the movement log.
C8_OneOpenRegisterPerUser ==
    /\ [](\A userId \in Users : Cardinality(FindOpenByUserId(registers, userId)) <= 1)
    /\ [][response'.op = "open" =>
           \A registerId \in RegisterInputs, openingBalance \in OpeningBalances, userId \in Users :
              (/\ FindOpenByUserId(registers, userId) \ {registerId} # {}
               /\ OpenCashRegister(registerId, openingBalance, userId))
                  => (~response'.ok /\ UNCHANGED registerVars)]_vars

\* C8 witness: u1 holds r1 open, r2 is closed, and u1's open of another
\* register has just been refused.
C8_Witness ==
    /\ response.op = "open"
    /\ ~response.ok
    /\ response.err = "User already has an open cash register"
    /\ registers["r1"].isOpen
    /\ registers["r1"].openedById = "u1"
    /\ ~registers["r2"].isOpen

(***************************************************************************)
(* Properties of the cash register, requests interleaving                  *)
(***************************************************************************)
InFlight(registerId) == {h \in Handlers : requests[h].pc # "idle" /\ requests[h].registerId = registerId}

\* C5: when the record* requests against an open register have all
\* completed, however their storage calls interleaved, currentBalance equals
\* the opening balance plus the signed sum of the session's movements, that
\* is, the expected balance recomputed from the log: no update is lost.
C5_NoLostUpdate ==
    \A registerId \in Registers :
        (registers[registerId].isOpen /\ InFlight(registerId) = {}) =>
            registers[registerId].currentBalance
                = registers[registerId].openingBalance
                    + ReplayMovements(movements,
                          FindByDateRange(movements, registers[registerId].openedAt, clock, registerId))

\* C9: however the storage calls of two open requests interleave, no user
\* is the opener of two registers that are both open.
C9_OneOpenRegisterPerUserInterleaved ==
    \A userId \in Users :
        \A r1 \in Registers, r2 \in Registers :
            (/\ registers[r1].isOpen /\ registers[r1].openedById = userId
             /\ registers[r2].isOpen /\ registers[r2].openedById = userId) => r1 = r2

\* C10: isOpen changes from false to true only in a successful open and from
\* true to false only in a successful close; an open of an open register and
\* a close of a register that is not open fail and leave the registers and
\* the movement log unchanged.
C10_OnlyOpenAndCloseChangeIsOpen ==
    [][/\ \A registerId \in Registers :
             registers'[registerId].isOpen # registers[registerId].isOpen =>
                 /\ response'.ok
                 /\ response'.op = (IF registers'[registerId].isOpen THEN "open" ELSE "close")
       /\ response'.op = "open" =>
             \A registerId \in Registers, openingBalance \in OpeningBalances, userId \in Users :
                (registers[registerId].isOpen /\ OpenCashRegister(registerId, openingBalance, userId))
                    => (~response'.ok /\ UNCHANGED registerVars)
       /\ response'.op = "close" =>
             \A registerId \in Registers, actualBalance \in ActualBalances, userId \in Users :
                (~registers[registerId].isOpen /\ CloseCashRegister(registerId, actualBalance, userId))
                    => (~response'.ok /\ UNCHANGED registerVars)]_vars

(***************************************************************************)
(* Error handling of the cash register and of account deactivation         *)
(***************************************************************************)
RecordOps == {"recordDeposit", "recordWithdrawal", "recordSale", "recordReturn"}

\* C11: a close by a user other than the opener of an open register fails,
\* and the registers (isOpen, currentBalance) and the movement log are as
\* before: no CLOSING movement is appended.
C11_OnlyOpenerCloses ==
    [][response'.op = "close" =>
          \A registerId \in Registers, actualBalance \in ActualBalances, userId \in Users :
             (/\ registers[registerId].isOpen
              /\ registers[registerId].openedById # userId
              /\ CloseCashRegister(registerId, actualBalance, userId))
                 => (/\ ~response'.ok
                     /\ registers' = registers
                     /\ movements' = movements
                     /\ registers'[registerId].isOpen)]_vars

\* C11 witness: r1 is open, opened by u1, holds a recorded sale, and a
\* close has just been refused because the caller is not the opener.
C11_Witness ==
    /\ response.op = "close"
    /\ ~response.ok
    /\ response.err = "Only the user who opened the register can close it"
    /\ registers["r1"].isOpen
    /\ registers["r1"].openedById = "u1"
    /\ registers["r1"].currentBalance = 150
    /\ ~registers["r2"].isOpen

\* C12: on an open register a withdrawal or a return with amount >
\* currentBalance fails and one with 0 < amount <= currentBalance succeeds;
\* a deposit or a sale with amount > 0 on an open register succeeds.
C12_BalanceChecks ==
    [][response'.op \in RecordOps =>
          /\ \A registerId \in Registers, amount \in WithdrawalAmounts :
                (registers[registerId].isOpen /\ RecordWithdrawal(registerId, amount)) =>
                    /\ amount > registers[registerId].currentBalance => ~response'.ok
                    /\ (0 < amount /\ amount <= registers[registerId].currentBalance) => response'.ok
          /\ \A registerId \in Registers, amount \in ReturnAmounts :
                (registers[registerId].isOpen /\ RecordReturn(registerId, amount)) =>
                    /\ amount > registers[registerId].currentBalance => ~response'.ok
                    /\ (0 < amount /\ amount <= registers[registerId].currentBalance) => response'.ok
          /\ \A registerId \in Registers, amount \in DepositAmounts :
                (registers[registerId].isOpen /\ amount > 0 /\ RecordDeposit(registerId, amount))
                    => response'.ok
          /\ \A registerId \in Registers, amount \in SaleAmounts :
                (registers[registerId].isOpen /\ amount > 0 /\ RecordSale(registerId, amount))
                    => response'.ok]_vars

\* C12 witness: r1 is open with a balance of 20 left after a withdrawal of
\* 30 and a return of 50, and a further return of 50 has just been refused
\* for insufficient balance.
C12_Witness ==
    /\ response.op = "recordReturn"
    /\ ~response.ok
    /\ response.err = "Insufficient cash register balance"
    /\ registers["r1"].isOpen
    /\ registers["r1"].currentBalance = 20

\* C13: a record* call that fails appends no movement and leaves every
\* register (currentBalance, isOpen) as it was.
C13_FailedRecordWritesNothing ==
    [][(response'.op \in RecordOps /\ ~response'.ok) =>
          (movements' = movements /\ registers' = registers)]_vars

\* C13 witness: r1 is open with movements recorded, and a withdrawal has
\* just been refused for a non-positive amount.
C13_Witness ==
    /\ response.op = "recordWithdrawal"
    /\ ~response.ok
    /\ response.err = "Withdrawal amount must be positive"
    /\ registers["r1"].isOpen
    /\ Len(movements) >= 2

\* C14: deleteAccountById of an account that a journal entry references, on
\* its debit or its credit side, fails and leaves the accounts as they were:
\* an active account stays active.
C14_DeactivateRefusedWithEntries ==
    [][response'.op = "deleteAccount" =>
          \A accountId \in AccountIdInputs :
             (/\ \E i \in 1..Len(journalEntries) :
                    \/ journalEntries[i].debitAccountId = accountId
                    \/ journalEntries[i].creditAccountId = accountId
              /\ DeleteAccountById(accountId))
                 => (~response'.ok /\ accounts' = accounts)]_vars

\* C14 witness: account 2 is active, is referenced only on the credit side
\* of the one stored entry, has no children, and its deactivation has just
\* been refused.
C14_Witness ==
    /\ response.op = "deleteAccount"
    /\ ~response.ok
    /\ response.err = "Cannot delete account with journal entries"
    /\ Len(journalEntries) = 1
    /\ journalEntries[1].creditAccountId = 2
    /\ journalEntries[1].debitAccountId = 1
    /\ Len(accounts) = 2
    /\ accounts[2].isActive

\* C15: deleteAccountById of an account that is the parent of any account,
\* active or already deactivated, fails and leaves the accounts as they
\* were.
C15_DeactivateRefusedWithChildren ==
    [][response'.op = "deleteAccount" =>
          \A accountId \in AccountIdInputs :
             (/\ \E child \in 1..Len(accounts) : accounts[child].parentId = accountId
              /\ DeleteAccountById(accountId))
                 => (~response'.ok /\ accounts' = accounts)]_vars

(***************************************************************************)
(* Properties of transaction posting                                       *)
(***************************************************************************)
ActiveAccountWithCode(code) == \E id \in 1..Len(accounts) : accounts[id].code = code /\ accounts[id].isActive

NewEntries == {i \in 1..Len(journalEntries') : i > Len(journalEntries)}

\* C16: a completed sale of amount T > 0 paid with method m, with the
\* account chosen by m (cash -> 1001, card and bank_transfer -> 1002, check
\* -> 1003, digital_wallet -> 1004, any other method -> 1001) and account
\* 4000 active, writes exactly one journal entry, debiting that account and
\* crediting 4000 by T; a cash sale of 200 on an empty ledger leaves
\* accountBalance(1001) at debit 200, credit 0 and accountBalance(4000) at
\* debit 0, credit 200.
C16_SalePostingByMethod ==
    [][(response'.op = "createSale" /\ response'.ok) =>
          LET m == response'.value.method
              T == response'.value.total
              code == CASE m = "cash" -> "1001"
                        [] m = "card" -> "1002"
                        [] m = "bank_transfer" -> "1002"
                        [] m = "check" -> "1003"
                        [] m = "digital_wallet" -> "1004"
                        [] OTHER -> "1001"
          IN  (ActiveAccountWithCode(code) /\ ActiveAccountWithCode("4000") /\ T > 0) =>
                  /\ Len(journalEntries') = Len(journalEntries) + 1
                  /\ SubSeq(journalEntries', 1, Len(journalEntries)) = journalEntries
                  /\ LET entry == journalEntries'[Len(journalEntries')]
                     IN  /\ accounts[entry.debitAccountId].code = code
                         /\ accounts[entry.creditAccountId].code = "4000"
                         /\ entry.amount = T
                  /\ (m = "cash" /\ T = 200 /\ journalEntries = <<>>) =>
                        /\ CalculateBalance(AccountIdOf("1001"), NoDate, NoDate)'.debit = 200
                        /\ CalculateBalance(AccountIdOf("1001"), NoDate, NoDate)'.credit = 0
                        /\ CalculateBalance(AccountIdOf("4000"), NoDate, NoDate)'.debit = 0
                        /\ CalculateBalance(AccountIdOf("4000"), NoDate, NoDate)'.credit = 200]_vars

\* C17: the journal entry that an approval posts for a return debits 4000
\* for the return total and credits the account that the entry of the
\* original sale debited.
C17_ReturnReversesSaleAccount ==
    [][(response'.op = "approveReturn" /\ response'.ok) =>
          \A i \in NewEntries :
             LET entry == journalEntries'[i]
                 saleId == returns[response'.value.id].saleId
             IN  /\ entry.description = EntryDescription("return", response'.value.id)
                 /\ accounts[entry.debitAccountId].code = "4000"
                 /\ entry.amount = response'.value.total
                 /\ \A j \in 1..Len(journalEntries) :
                       journalEntries[j].description = EntryDescription("sale", saleId) =>
                           entry.creditAccountId = journalEntries[j].debitAccountId]_vars

\* C18: a purchase completed while accounts 1200 and 2000 are active posts
\* exactly one journal entry, debiting 1200 and crediting 2000 by the
\* purchase total.
C18_PurchaseCompletionPosts ==
    [][(/\ response'.op = "completePurchase"
        /\ response'.ok
        /\ ActiveAccountWithCode("1200")
        /\ ActiveAccountWithCode("2000")) =>
              /\ Len(journalEntries') = Len(journalEntries) + 1
              /\ LET entry == journalEntries'[Len(journalEntries')]
                 IN  /\ accounts[entry.debitAccountId].code = "1200"
                     /\ accounts[entry.creditAccountId].code = "2000"
                     /\ entry.amount = response'.value.total]_vars

ListedMethodCode ==
    [cash |-> "1001", card |-> "1002", bank_transfer |-> "1002", check |-> "1003",
     digital_wallet |-> "1004"]

SalePostingBlocked(saleData) ==
    \/ saleData.quantity * saleData.unitPrice - saleData.discount <= 0
    \/ ~ActiveAccountWithCode("4000")
    \/ \A code \in {"1001", "1002", "1003", "1004"} : ~ActiveAccountWithCode(code)
    \/ /\ saleData.paymentMethod \in DOMAIN ListedMethodCode
       /\ ~ActiveAccountWithCode(ListedMethodCode[saleData.paymentMethod])

ReturnPostingBlocked ==
    \/ ~ActiveAccountWithCode("4000")
    \/ \A code \in {"1001", "1002", "1003", "1004"} : ~ActiveAccountWithCode(code)

\* C19: a valid sale whose posting cannot succeed (total <= 0, account 4000
\* or every cash/bank account missing or inactive) is still recorded with
\* its stock change and answered successfully, and an approval of a pending
\* return whose posting cannot succeed still takes the stock back, marks the
\* return APPROVED and succeeds; in both cases no journal entry is written.
C19_PostingFailureKeepsEvent ==
    [][/\ response'.op = "createSale" =>
             \A saleData \in SaleInputs :
                (/\ CreateSaleError(saleData) = ""
                 /\ SalePostingBlocked(saleData)
                 /\ CreateSale(saleData))
                    => /\ response'.ok
                       /\ Len(sales') = Len(sales) + 1
                       /\ sales'[Len(sales')].status = "COMPLETED"
                       /\ stock' = stock - saleData.quantity
                       /\ journalEntries' = journalEntries
       /\ response'.op = "approveReturn" =>
             \A returnId \in DocumentIds :
                (/\ ApproveReturnError(returnId) = ""
                 /\ ReturnPostingBlocked
                 /\ ApproveReturn(returnId))
                    => /\ response'.ok
                       /\ returns'[returnId].status = "APPROVED"
                       /\ stock' = stock + returns[returnId].quantity
                       /\ journalEntries' = journalEntries]_vars

\* C19 witness: a cash sale has just been recorded and answered
\* successfully while account 1001 is inactive; its stock change is kept
\* and the journal is empty.
C19_Witness ==
    /\ response.op = "createSale"
    /\ response.ok
    /\ response.value.method = "cash"
    /\ response.value.total = 200
    /\ Len(sales) = 1
    /\ stock = 1
    /\ journalEntries = <<>>
    /\ accounts[1].code = "1001"
    /\ ~accounts[1].isActive

\* C20: a completed sale made while its user holds an open register appends
\* a SALE movement of the sale total to the movement log, and an approved
\* return appends a RETURN movement of the return total.
C20_EventsReachTheRegister ==
    [][(/\ response'.op \in {"createSale", "approveReturn"}
        /\ response'.ok
        /\ FindOpenByUserId(registers, "u1") # {}) =>
          /\ Len(movements') = Len(movements) + 1
          /\ movements'[Len(movements')].type = (IF response'.op = "createSale" THEN "SALE" ELSE "RETURN")
          /\ movements'[Len(movements')].amount = response'.value.total]_vars

(***************************************************************************)
(* Properties of the journal engine                                        *)
(***************************************************************************)
ExistsAndActive(accountId) == accountId \in 1..Len(accounts) /\ accounts[accountId].isActive

\* C21: a createJournalEntry call succeeds or changes the stored journal
\* entries only if both the debit account and the credit account of the
\* entry exist and are active at the time of the call: otherwise it fails
\* and writes nothing, so no entry is posted against a deactivated account.
C21_PostEntryNeedsActiveAccounts ==
    [][(response'.op = "createJournalEntry" /\ (response'.ok \/ journalEntries' # journalEntries)) =>
          /\ Len(journalEntries') = Len(journalEntries) + 1
          /\ ExistsAndActive(journalEntries'[Len(journalEntries')].debitAccountId)
          /\ ExistsAndActive(journalEntries'[Len(journalEntries')].creditAccountId)]_vars

\* C21 witness: account 1 is active, account 2 exists and has been
\* deactivated, and a posting that credits account 2 has just been refused
\* after an earlier posting had been written.
C21_Witness ==
    /\ response.op = "createJournalEntry"
    /\ ~response.ok
    /\ response.err = "Credit account not found or inactive"
    /\ Len(accounts) = 2
    /\ accounts[1].isActive
    /\ ~accounts[2].isActive
    /\ Len(journalEntries) = 1

C23_SignAdjustedBalancesAgree ==
    \A accountId \in FindAllActive :
        LET debit == SumAmounts(journalEntries,
                        {i \in 1..Len(journalEntries) : journalEntries[i].debitAccountId = accountId})
            credit == SumAmounts(journalEntries,
                        {i \in 1..Len(journalEntries) : journalEntries[i].creditAccountId = accountId})
            normal == IF accounts[accountId].type \in {"ASSET", "EXPENSE"}
                      THEN debit - credit ELSE credit - debit
        IN  /\ TrialBalanceAccount(accountId, PostingDate) = normal
            /\ GetAccountBalance(accountId) = normal
            /\ CalculateAccountBalance(accountId, NoDate, NoDate).balance = normal
            /\ accountId \in ProfitLossAccounts => ProfitLossBalance(accountId, NoDate, NoDate) = normal

(***************************************************************************)
(* Properties of the account tree                                          *)
(***************************************************************************)
RECURSIVE AncestorsOf(_, _)
AncestorsOf(accountId, steps) ==
    IF steps = 0 \/ ~AccountExists(accountId) \/ accounts[accountId].parentId = NoId
    THEN {}
    ELSE {accounts[accountId].parentId} \cup AncestorsOf(accounts[accountId].parentId, steps - 1)

\* C24: the parentId relation is acyclic: following parentId from any
\* account never returns to that account.
C24_ParentRelationAcyclic ==
    \A accountId \in 1..Len(accounts) : accountId \notin AncestorsOf(accountId, Len(accounts))

RECURSIVE ForestNodes(_, _, _)
ForestNodes(hierarchy, nodes, steps) ==
    IF steps = 0 THEN nodes
    ELSE ForestNodes(hierarchy,
                     nodes \cup UNION {hierarchy.children[id] : id \in nodes},
                     steps - 1)

\* C26: every active account appears in the forest that getHierarchy
\* returns: among the roots when it has no parentId, otherwise among the
\* children of the node of its parent, which is itself in the forest; no
\* active account is missing.
C26_HierarchyHoldsEveryActiveAccount ==
    LET hierarchy == GetHierarchy
        forest == ForestNodes(hierarchy, hierarchy.roots, Len(accounts))
    IN  \A accountId \in FindAllActive :
            /\ accountId \in forest
            /\ IF accounts[accountId].parentId = NoId
               THEN accountId \in hierarchy.roots
               ELSE /\ accountId \notin hierarchy.roots
                    /\ accounts[accountId].parentId \in DOMAIN hierarchy.children
                    /\ accountId \in hierarchy.children[accounts[accountId].parentId]

(***************************************************************************)
(* Properties of the expected balance                                      *)
(***************************************************************************)
LatestOpening(registerId) ==
    LET openings == {i \in 1..Len(movements) :
                        movements[i].cashRegisterId = registerId /\ movements[i].type = "OPENING"}
    IN  IF openings = {} THEN 0 ELSE CHOOSE i \in openings : \A j \in openings : j <= i

RECURSIVE SumOfType(_, _)
SumOfType(idx, types) ==
    IF idx = {} THEN 0
    ELSE LET i == CHOOSE j \in idx : TRUE
         IN  (IF movements[i].type \in types THEN movements[i].amount ELSE 0)
                + SumOfType(idx \ {i}, types)

\* C25: for a register that has been opened, the expected balance equals the
\* opening balance of the current session plus the SALE and DEPOSIT amounts
\* minus the RETURN and WITHDRAWAL amounts logged for the register after its
\* latest OPENING movement: movements of earlier sessions and the OPENING and
\* CLOSING movements contribute nothing.
C25_ExpectedBalanceOfCurrentSession ==
    \A registerId \in Registers :
        LatestOpening(registerId) # 0 =>
            LET session == {i \in 1..Len(movements) :
                               movements[i].cashRegisterId = registerId /\ i > LatestOpening(registerId)}
            IN  CalculateExpectedBalance(registerId)
                    = registers[registerId].openingBalance
                        + SumOfType(session, {"SALE", "DEPOSIT"})
                        - SumOfType(session, {"RETURN", "WITHDRAWAL"})

\* C25 witness: r1 recorded a sale of 50 in a first session, was closed with
\* 120 and opened again with 100; its expected balance is 100, and a sale
\* of a non-positive amount has just been refused.
C25_Witness ==
    /\ response.op = "recordSale"
    /\ ~response.ok
    /\ registers["r1"].isOpen
    /\ registers["r1"].closedAt # NoTime
    /\ registers["r1"].openedAt > registers["r1"].closedAt
    /\ Shape(SelectSeq(movements, LAMBDA m : m.cashRegisterId = "r1"))
          = <<(<<"OPENING", 100>>), (<<"SALE", 50>>), (<<"CLOSING", 120>>), (<<"OPENING", 100>>)>>
    /\ CalculateExpectedBalance("r1") = 100

(***************************************************************************)
(* Properties of return processing                                         *)
(***************************************************************************)
RECURSIVE SumQuantity(_, _)
SumQuantity(rows, idx) ==
    IF idx = {} THEN 0
    ELSE LET i == CHOOSE j \in idx : TRUE
         IN  rows[i].quantity + SumQuantity(rows, idx \ {i})

ReturnEntries(returnId) ==
    {i \in 1..Len(journalEntries) : journalEntries[i].description = EntryDescription("return", returnId)}

\* C28: whatever createReturn, approveReturn and rejectReturn calls were
\* made, at most one journal entry is posted for each return, and the units
\* taken back into stock do not exceed the returned quantities, each counted
\* once: the stock is at most the initial stock minus the units sold plus
\* the units of completed purchases plus the units of the returns.
C28_ReturnProcessedOnce ==
    /\ \A returnId \in 1..Len(returns) : Cardinality(ReturnEntries(returnId)) <= 1
    /\ stock <= InitialStock
                  - SumQuantity(sales, 1..Len(sales))
                  + SumQuantity(purchases, {i \in 1..Len(purchases) : purchases[i].status = "COMPLETED"})
                  + SumQuantity(returns, 1..Len(returns))

(***************************************************************************)
(* Properties of the cash register under interleaved withdrawals, returns  *)
(* and closes                                                              *)
(***************************************************************************)
\* C29: a register is never overdrawn: in every state, also while the
\* storage calls of recordWithdrawal and recordReturn requests interleave,
\* currentBalance and the expected balance recomputed from the movement log
\* are both >= 0.
C29_NeverOverdrawn ==
    \A registerId \in Registers :
        /\ registers[registerId].currentBalance >= 0
        /\ CalculateExpectedBalance(registerId) >= 0

LatestClosing(registerId) ==
    LET closings == {i \in 1..Len(movements) :
                        movements[i].cashRegisterId = registerId /\ movements[i].type = "CLOSING"}
    IN  IF closings = {} THEN 0 ELSE CHOOSE i \in closings : \A j \in closings : j <= i

\* C30: once a close has completed and until the next open, however the
\* storage calls of the close and of record* requests interleaved, the
\* register's currentBalance equals the actual balance passed to the close
\* (the amount of its CLOSING movement) and no SALE, DEPOSIT, WITHDRAWAL or
\* RETURN movement follows that CLOSING movement in the register's log.
C30_ClosedRegisterConsistent ==
    \A registerId \in Registers :
        (~registers[registerId].isOpen /\ registers[registerId].closedAt # NoTime) =>
            LET closing == LatestClosing(registerId)
            IN  /\ closing # 0
                /\ registers[registerId].currentBalance = movements[closing].amount
                /\ \A i \in 1..Len(movements) :
                      (i > closing /\ movements[i].cashRegisterId = registerId)
                          => movements[i].type \notin {"SALE", "DEPOSIT", "WITHDRAWAL", "RETURN"}

====
